---- MODULE Spec2Model ----
(***************************************************************************)
(* A model of the shed package: the Bloch-sphere geometry and plotting     *)
(* helpers (shed/bloch_sphere.py) and the Hamiltonian constructors         *)
(* (shed/hamiltonians.py).                                                 *)
(*                                                                         *)
(* Real numbers are modelled exactly, as elements of the field             *)
(* Q(sqrt 2, sqrt 3); angles are integer multiples of pi/12, for which     *)
(* sine and cosine lie in that field.  Floating-point rounding is not      *)
(* modelled.                                                               *)
(***************************************************************************)
EXTENDS Integers, Sequences, FiniteSets, TLC

VARIABLES
    state,   \* the quantum state handed to the Bloch-coordinate functions
    other,   \* a second quantum state, handed to the same functions
    out,     \* what the last Bloch-coordinate call returned for state and other
    fig,     \* the caller-owned plotly figure (None before one is made)
    call,    \* the last plotting call: its arguments and the exception raised
    ham      \* the last Hamiltonian call: its arguments and the operator returned

vars == <<state, other, out, fig, call, ham>>

\* The value of a variable holding no call yet, or no object.
None == [op |-> "none"]

----------------------------------------------------------------------------
(* Bounds of the model.                                                    *)

\* Largest dimension of a state vector handed to the Bloch functions.
MaxDim == 4
\* Largest number of states in one add_states call.
MaxStates == 2
\* Largest number of add_states calls made on the figures of one run.
MaxCalls == 2
\* Largest |freq| and |anharm| handed to the Hamiltonian constructors.
MaxFreq == 3
\* Largest truncation dimension handed to transmon_hamiltonian.
MaxLevels == 3

----------------------------------------------------------------------------------------------------------------------------------------
(* Exact real arithmetic.  <<p, q, r, s, d>> is the real number            *)
(* (p + q*sqrt(2) + r*sqrt(3) + s*sqrt(6)) / d, with d > 0 and the five    *)
(* integers without a common factor, so that equal numbers are equal       *)
(* tuples.  The operations are functions, so that an argument is evaluated *)
(* once, before the operation is applied.                                  *)

Real == Int \X Int \X Int \X Int \X Int

\* The one element of a singleton set.
Only(S) == CHOOSE x \in S : TRUE

Abs(n) == IF n < 0 THEN -n ELSE n

Gcd[m \in Nat, n \in Nat] == IF n = 0 THEN m ELSE Gcd[n, m % n]

FNorm[x \in Real] ==
    LET g == Gcd[Gcd[Gcd[Abs(x[1]), Abs(x[2])], Gcd[Abs(x[3]), Abs(x[4])]], x[5]]
    IN  <<x[1] \div g, x[2] \div g, x[3] \div g, x[4] \div g, x[5] \div g>>

FInt(n) == <<n, 0, 0, 0, 1>>
FZero == FInt(0)
FOne == FInt(1)
FHalf == <<1, 0, 0, 0, 2>>
Sqrt2 == <<0, 1, 0, 0, 1>>
Sqrt3 == <<0, 0, 1, 0, 1>>
Sqrt6 == <<0, 0, 0, 1, 1>>

FAdd[x \in Real, y \in Real] ==
    FNorm[<<x[1] * y[5] + y[1] * x[5], x[2] * y[5] + y[2] * x[5],
            x[3] * y[5] + y[3] * x[5], x[4] * y[5] + y[4] * x[5], x[5] * y[5]>>]

FNeg[x \in Real] == <<-x[1], -x[2], -x[3], -x[4], x[5]>>

FSub[x \in Real, y \in Real] == FAdd[x, FNeg[y]]

FMul[x \in Real, y \in Real] ==
    FNorm[<<x[1] * y[1] + 2 * x[2] * y[2] + 3 * x[3] * y[3] + 6 * x[4] * y[4],
            x[1] * y[2] + x[2] * y[1] + 3 * (x[3] * y[4] + x[4] * y[3]),
            x[1] * y[3] + x[3] * y[1] + 2 * (x[2] * y[4] + x[4] * y[2]),
            x[1] * y[4] + x[4] * y[1] + x[2] * y[3] + x[3] * y[2],
            x[5] * y[5]>>]

FSq[x \in Real] == FMul[x, x]

\* The sign (-1, 0 or 1) of u + v*sqrt(2), for integers u and v.
Sign2[u \in Int, v \in Int] ==
    IF u = 0 /\ v = 0 THEN 0
    ELSE IF u >= 0 /\ v >= 0 THEN 1
    ELSE IF u <= 0 /\ v <= 0 THEN -1
    ELSE IF u > 0 THEN (IF u * u > 2 * v * v THEN 1 ELSE -1)
    ELSE (IF 2 * v * v > u * u THEN 1 ELSE -1)

\* The sign of x = (A + B*sqrt(3)) / d, A = p + q*sqrt(2), B = r + s*sqrt(2):
\* when A and B differ in sign, that of A^2 - 3*B^2 decides.
FSign[x \in Real] ==
    LET sa == Sign2[x[1], x[2]]
        sb == Sign2[x[3], x[4]]
        sd == Sign2[x[1] * x[1] + 2 * x[2] * x[2] - 3 * x[3] * x[3] - 6 * x[4] * x[4],
                    2 * x[1] * x[2] - 6 * x[3] * x[4]]
    IN  IF sb = 0 \/ sa = sb THEN sa
        ELSE IF sa = 0 THEN sb
        ELSE sa * sd

\* x < y and x <= y.
FLess[x \in Real, y \in Real] == FSign[FSub[y, x]] = 1
FLeq[x \in Real, y \in Real] == x = y \/ FLess[x, y]

----------------------------------------------------------------------------
(* Angles and the numpy functions the package calls.                       *)

\* np.pi, in units of pi/12 (15 degrees).
Pi == 12

\* cos of 0, 15, ..., 90 degrees.
CosTable ==
    <<FOne, <<0, 1, 0, 1, 4>>, <<0, 0, 1, 0, 2>>, <<0, 1, 0, 0, 2>>,
      FHalf, <<0, -1, 0, 1, 4>>, FZero>>

np_cos[t \in Int] ==
    LET m == t % (2 * Pi)
    IN  IF m <= Pi \div 2 THEN CosTable[m + 1]
        ELSE IF m <= Pi THEN FNeg[CosTable[Pi - m + 1]]
        ELSE IF m <= 3 * (Pi \div 2) THEN FNeg[CosTable[m - Pi + 1]]
        ELSE CosTable[2 * Pi - m + 1]

np_sin[t \in Int] == np_cos[t - Pi \div 2]

\* The radii r = sqrt(|a|^2 + |b|^2) of the states the model draws.
Radii == {FZero, FHalf, <<0, 1, 0, 0, 2>>, <<0, 0, 1, 0, 2>>, FOne}

\* The non-negative reals whose squares np.sqrt is applied to: the amplitude
\* moduli h*cos(t) of the states drawn, and the entries c*sqrt(k) of qu.destroy.
Magnitudes ==
    {FMul[h, np_cos[t]] : h \in Radii, t \in 0..(Pi \div 2)}
        \cup {FMul[FInt(c), k] : c \in 0..2, k \in {FOne, Sqrt2, Sqrt3, Sqrt6}}

\* The pairs <<m^2, m>>.
Squares == {<<FSq[m], m>> : m \in Magnitudes}

\* np.sqrt: the non-negative root.
np_sqrt[v \in Real] == (CHOOSE p \in Squares : p[1] = v)[2]

\* The points <<x, y, t>> at angle t in (-pi, pi] of the circle of radius h.
Circle ==
    [h \in Magnitudes |->
        {<<FMul[h, np_cos[t]], FMul[h, np_sin[t]], t>> : t \in (1 - Pi)..Pi}]

\* np.arctan2(y, x): the angle in (-pi, pi] of the point (x, y); 0 at the origin.
np_arctan2[y \in Real, x \in Real] ==
    LET h == np_sqrt[FAdd[FSq[x], FSq[y]]]
    IN  IF x = FZero /\ y = FZero THEN 0
        ELSE (CHOOSE p \in Circle[h] : p[1] = x /\ p[2] = y)[3]

\* A complex number is <<re, im>>.
Complex == Real \X Real
CZero == <<FZero, FZero>>

\* np.abs and np.angle of a complex number.
np_abs[z \in Complex] == np_sqrt[FAdd[FSq[z[1]], FSq[z[2]]]]
np_angle[z \in Complex] == np_arctan2[z[2], z[1]]

----------------------------------------------------------------------------
(* shed/bloch_sphere.py: Bloch coordinates.                                *)
(* A state (a qu.Qobj ket) is the sequence of its complex amplitudes;      *)
(* state[i, 0] of the source is state[i + 1] here.                         *)

\* state[i, 0] raises IndexError when the ket has no row i.
RaisesIndexError(st) == Len(st) < 2

\* |z|^2 of an amplitude, and the population of a state's levels 1..n.
Pop[z \in Complex] == FAdd[FSq[z[1]], FSq[z[2]]]

RECURSIVE PopUpTo(_, _)
PopUpTo(st, n) == IF n = 0 THEN FZero ELSE FAdd[PopUpTo(st, n - 1), Pop[st[n]]]

LeadingPop(st) == PopUpTo(st, 2)

\* A variant that takes r from the population of every level.
bloch_spherical_coords_r_of_all_levels(st) ==
    <<np_sqrt[PopUpTo(st, Len(st))],
      2 * np_arctan2[np_abs[st[2]], np_abs[st[1]]],
      np_angle[st[2]] - np_angle[st[1]]>>

\* A variant that leaves out the factor 2 of theta.
bloch_spherical_coords_theta_not_doubled(st) ==
    <<np_sqrt[FAdd[FSq[np_abs[st[1]]], FSq[np_abs[st[2]]]]],
      np_arctan2[np_abs[st[2]], np_abs[st[1]]],
      np_angle[st[2]] - np_angle[st[1]]>>

\* bloch_spherical_coords(state): the array [r, theta, phi], r a real, theta and
\* phi angles in units of pi/12.
bloch_spherical_coords(st) ==
    LET a == st[1]
        b == st[2]
        a_abs == np_abs[a]
        a_angle == np_angle[a]
        b_abs == np_abs[b]
        b_angle == np_angle[b]
        r == np_sqrt[FAdd[FSq[a_abs], FSq[b_abs]]]
        theta == 2 * np_arctan2[b_abs, a_abs]
        phi == b_angle - a_angle
    IN  <<r, theta, phi>>

\* A variant whose y takes cos(theta)*sin(phi) for sin(theta)*sin(phi).
bloch_vector_y_swaps_sin_cos(st) ==
    Only({<<FMul[FMul[arr[1], np_sin[arr[2]]], np_cos[arr[3]]],
            FMul[FMul[arr[1], np_cos[arr[2]]], np_sin[arr[3]]],
            FMul[arr[1], np_cos[arr[2]]]>> : arr \in {bloch_spherical_coords(st)}})

\* bloch_vector(state): the array [x, y, z].
bloch_vector(st) ==
    Only({LET r == arr[1]
              theta == arr[2]
              phi == arr[3]
          IN  <<FMul[FMul[r, np_sin[theta]], np_cos[phi]],
                FMul[FMul[r, np_sin[theta]], np_sin[phi]],
                FMul[r, np_cos[theta]]>> : arr \in {bloch_spherical_coords(st)}})

----------------------------------------------------------------------------
(* shed/bloch_sphere.py: the figure.                                       *)
(* A go.Figure is [type, data, layout]: data the sequence of its traces,   *)
(* layout its layout properties.  The sampled meshes of the sphere and of  *)
(* the equator are named, not tabulated.                                   *)

NoFigure == [type |-> "none"]

\* A variant that puts the trace before the others.
add_trace_front(f, trace) == [f EXCEPT !.data = <<trace>> \o @]

\* fig.add_trace(trace)
add_trace(f, trace) == [f EXCEPT !.data = Append(@, trace)]

\* fig.update_layout(layout): the given properties replace or join the old ones.
update_layout(f, layout) ==
    [f EXCEPT !.layout =
        [k \in DOMAIN @ \cup DOMAIN layout |->
            IF k \in DOMAIN layout THEN layout[k] ELSE @[k]]]

\* The mode flags go.Scatter3d accepts (of those the model passes).
ValidModes == {"markers", "lines", "markers+text"}

\* The marker trace add_states builds from the Bloch vectors.
StatesTrace(vectors, mode) ==
    [type |-> "scatter3d",
     x |-> [i \in 1..Len(vectors) |-> vectors[i][1]],
     y |-> [i \in 1..Len(vectors) |-> vectors[i][2]],
     z |-> [i \in 1..Len(vectors) |-> vectors[i][3]],
     mode |-> mode,
     marker |-> [color |-> [i \in 1..Len(vectors) |-> vectors[i][3]],
                 coloraxis |-> "coloraxis",
                 size |-> 2],
     hoverinfo |-> "none",
     showlegend |-> FALSE,
     meta |-> [showscale |-> FALSE]]

\* The length of the longest prefix of states all of which have two amplitudes.
RECURSIVE Computable(_)
Computable(states) ==
    IF states = <<>> \/ RaisesIndexError(states[1]) THEN 0
    ELSE 1 + Computable(Tail(states))

\* A variant that draws the vectors computed before a state fails.
add_states_trace_before_failure(f, states, mode) ==
    Only({IF n < Len(states) \/ states = <<>>
          THEN [fig |-> IF n > 0 /\ mode \in ValidModes
                        THEN add_trace(f, StatesTrace(
                                [i \in 1..n |-> bloch_vector(states[i])], mode))
                        ELSE f,
                raised |-> "IndexError"]
          ELSE IF mode \notin ValidModes
          THEN [fig |-> f, raised |-> "ValueError"]
          ELSE [fig |-> add_trace(f, StatesTrace(
                            [i \in 1..n |-> bloch_vector(states[i])], mode)),
                raised |-> "none"] : n \in {Computable(states)}})

\* add_states(fig, states, mode=mode): the figure afterwards and the exception
\* raised ("none" when the call returns).  The list comprehension raises
\* IndexError at the first state without a row 1; vectors[:, 0] raises
\* IndexError on the one-dimensional array np.array([]); go.Scatter3d raises
\* ValueError on a mode it does not know; only then is the figure touched.
add_states(f, states, mode) ==
    IF \E i \in 1..Len(states) : RaisesIndexError(states[i])
    THEN [fig |-> f, raised |-> "IndexError"]
    ELSE Only({IF vectors = <<>>
               THEN [fig |-> f, raised |-> "IndexError"]
               ELSE IF mode \notin ValidModes
               THEN [fig |-> f, raised |-> "ValueError"]
               ELSE [fig |-> add_trace(f, StatesTrace(vectors, mode)),
                     raised |-> "none"] :
               vectors \in {[i \in 1..Len(states) |-> bloch_vector(states[i])]}})

\* The dict axis_options and the dict camera of bloch_sphere_figure.
axis_options ==
    [showaxeslabels |-> FALSE, showbackground |-> FALSE,
     showspikes |-> FALSE, showticklabels |-> FALSE]

camera ==
    [up |-> [x |-> FInt(0), y |-> FInt(0), z |-> FInt(1)],
     center |-> [x |-> FInt(0), y |-> FInt(0), z |-> FInt(0)],
     eye |-> [x |-> <<11, 0, 0, 0, 10>>, y |-> <<11, 0, 0, 0, 10>>,
              z |-> <<33, 0, 0, 0, 100>>]]

\* The five traces of the blank sphere, in the order they are added.
SphereTraces ==
    << [type |-> "surface", x |-> "outer(cos(phi), sin(theta))",
        y |-> "outer(sin(phi), sin(theta))", z |-> "outer(ones, cos(theta))",
        showscale |-> FALSE, colorscale |-> <<<<0, "grey">>, <<1, "grey">>>>,
        opacity |-> <<1, 0, 0, 0, 4>>, surfacecolor |-> "zeros", hoverinfo |-> "none"],
       [type |-> "scatter3d", x |-> <<0, 0>>, y |-> <<0, 0>>, z |-> <<-1, 1>>,
        mode |-> "lines", line |-> [color |-> "grey"],
        hoverinfo |-> "none", showlegend |-> FALSE],
       [type |-> "scatter3d", x |-> "cos(phi)", y |-> "sin(phi)", z |-> "zeros",
        mode |-> "lines", line |-> [color |-> "grey"],
        hoverinfo |-> "none", showlegend |-> FALSE],
       [type |-> "scatter3d", x |-> <<0>>, y |-> <<0>>, z |-> <<1>>,
        mode |-> "markers+text", marker |-> [color |-> "black", size |-> 2],
        text |-> "0", hoverinfo |-> "none", showlegend |-> FALSE],
       [type |-> "scatter3d", x |-> <<0>>, y |-> <<0>>, z |-> <<-1>>,
        mode |-> "markers+text", marker |-> [color |-> "black", size |-> 2],
        text |-> "1", textposition |-> "bottom center",
        hoverinfo |-> "none", showlegend |-> FALSE] >>

RECURSIVE AddTraces(_, _)
AddTraces(f, traces) ==
    IF traces = <<>> THEN f ELSE AddTraces(add_trace(f, traces[1]), Tail(traces))

\* A variant that ignores show_colorbar.
coloraxis_always_shown(show_colorbar) ==
    [cmin |-> -1, cmax |-> 1, colorscale |-> "bluered_r", showscale |-> TRUE]

\* The dict coloraxis of bloch_sphere_figure's layout.
coloraxis_options(show_colorbar) ==
    [cmin |-> -1, cmax |-> 1, colorscale |-> "bluered_r", showscale |-> show_colorbar]

\* bloch_sphere_figure(show_colorbar=show_colorbar).  Properties given as None
\* (title, xaxis_title, ...) stay unset.
bloch_sphere_figure(show_colorbar) ==
    LET layout == [autosize |-> FALSE, width |-> 500, height |-> 500,
                   margin |-> [l |-> 0, r |-> 0, b |-> 0, t |-> 0]]
        blank == [type |-> "Figure", data |-> <<>>, layout |-> layout]
    IN  update_layout(
            AddTraces(blank, SphereTraces),
            [coloraxis |-> coloraxis_options(show_colorbar),
             scene |-> [xaxis |-> axis_options, yaxis |-> axis_options,
                        zaxis |-> axis_options, camera |-> camera]])

----------------------------------------------------------------------------
(* shed/hamiltonians.py.  An operator (a qu.Qobj) is the sequence of the   *)
(* rows of its matrix; the operators built here have real entries.         *)

Matrices == Seq(Seq(Real))

\* s * A, A + B, A * B and A.dag() of qutip.
Scale[s \in Real, A \in Matrices] ==
    [i \in 1..Len(A) |-> [j \in 1..Len(A) |-> FMul[s, A[i][j]]]]

MatAdd[A \in Matrices, B \in Matrices] ==
    [i \in 1..Len(A) |-> [j \in 1..Len(A) |-> FAdd[A[i][j], B[i][j]]]]

RowByColumn[A \in Matrices, B \in Matrices, i \in Nat, j \in Nat, n \in Nat] ==
    IF n = 0 THEN FZero
    ELSE FAdd[RowByColumn[A, B, i, j, n - 1], FMul[A[i][n], B[n][j]]]

MatMul[A \in Matrices, B \in Matrices] ==
    [i \in 1..Len(A) |-> [j \in 1..Len(A) |-> RowByColumn[A, B, i, j, Len(A)]]]

Dag[A \in Matrices] == [i \in 1..Len(A) |-> [j \in 1..Len(A) |-> A[j][i]]]

\* qu.sigmaz() and qu.sigmax()
sigmaz == <<<<FOne, FZero>>, <<FZero, FInt(-1)>>>>
sigmax == <<<<FZero, FOne>>, <<FOne, FZero>>>>

\* qu.destroy(dim): the entry in row n - 1, column n (counted from 0) is sqrt(n).
destroy(dim) ==
    [i \in 1..dim |-> [j \in 1..dim |-> IF j = i + 1 THEN np_sqrt[FInt(i)] ELSE FZero]]

\* A variant built on sigmax.
qubit_hamiltonian_sigmax(freq) == Scale[FMul[FHalf, freq], sigmax]

\* qubit_hamiltonian(freq)
qubit_hamiltonian(freq) == Scale[FMul[FHalf, freq], sigmaz]

\* A variant whose anharmonic term is at*a*at*a, the square of the number operator.
transmon_hamiltonian_number_squared(freq, anharm, dim) ==
    Only({MatAdd[MatMul[Scale[freq, Dag[a]], a],
                 MatMul[MatMul[MatMul[Scale[FMul[FHalf, anharm], Dag[a]], a], Dag[a]], a]] :
          a \in {destroy(dim)}})

\* transmon_hamiltonian(freq, anharm, dim)
transmon_hamiltonian(freq, anharm, dim) ==
    Only({LET at == Dag[a]
          IN  MatAdd[MatMul[Scale[freq, at], a],
                     MatMul[MatMul[MatMul[Scale[FMul[FHalf, anharm], at], at], a], a]] :
          a \in {destroy(dim)}})

----------------------------------------------------------------------------
(* The quantum states the model hands to the Bloch functions.              *)

\* The complex number of modulus m and argument alpha.
Polar(m, alpha) == <<FMul[m, np_cos[alpha]], FMul[m, np_sin[alpha]]>>

\* Arguments of the two leading amplitudes: multiples of 60 degrees in (-pi, pi].
Phases == {k * (Pi \div 3) : k \in -1..3}

\* Arguments of an amplitude beyond index 1.
TailPhases == {Pi \div 2}

\* The amplitudes beyond index 1 of a normalized state whose two leading
\* amplitudes have radius h: the remaining population sits in one level.
Tails(h) ==
    IF h = FOne
    THEN {[i \in 1..n |-> CZero] : n \in 0..(MaxDim - 2)}
    ELSE UNION {UNION {{[i \in 1..n |-> IF i = k THEN z ELSE CZero] : k \in 1..n} :
                  n \in 1..(MaxDim - 2)} :
                  z \in {Polar(np_sqrt[FSub[FOne, FSq[h]]], g) : g \in TailPhases}}

\* The two leading amplitudes a = h cos(t) e^(i alpha), b = h sin(t) e^(i beta).
Leading(h, t, alpha, beta) ==
    <<Polar(FMul[h, np_cos[t]], alpha), Polar(FMul[h, np_sin[t]], beta)>>

\* Every variable of the parts of the package a run does not exercise.
NoBloch == state = None /\ other = None /\ out = None
NoPlotting == fig = NoFigure /\ call = None
NoHamiltonian == ham = None

\* Two normalized states: other has state's leading amplitudes, in the same or
\* in swapped order, and its own dimension and amplitudes beyond index 1.
InitBloch ==
    /\ \E h \in Radii, t \in 0..(Pi \div 2), alpha \in Phases, beta \in Phases :
         \E tail \in Tails(h), tail2 \in Tails(h), swap \in BOOLEAN :
            LET lead == Leading(h, t, alpha, beta)
            IN  /\ state = lead \o tail
                /\ other = (IF swap THEN <<lead[2], lead[1]>> ELSE lead) \o tail2
    /\ out = None
    /\ NoPlotting
    /\ NoHamiltonian

BlochSphericalCoords ==
    /\ out.op # "bloch_spherical_coords"
    /\ out' = [op |-> "bloch_spherical_coords",
               state |-> bloch_spherical_coords(state),
               other |-> bloch_spherical_coords(other)]
    /\ UNCHANGED <<state, other, fig, call, ham>>

BlochVector ==
    /\ out.op # "bloch_vector"
    /\ out' = [op |-> "bloch_vector",
               state |-> bloch_vector(state),
               other |-> bloch_vector(other)]
    /\ UNCHANGED <<state, other, fig, call, ham>>

NextBloch == BlochSphericalCoords \/ BlochVector

SpecBloch == InitBloch /\ [][NextBloch]_vars

----------------------------------------------------------------------------
(* Properties of the Bloch coordinates, checked under SpecBloch.           *)

\* The two states a run holds, each with what the last call returned for it.
Results == {<<state, out.state>>, <<other, out.other>>}

\* d wrapped into (-pi, pi].
Wrap(d) == ((d + Pi - 1) % (2 * Pi)) - Pi + 1

SumSq(v) == FAdd[FAdd[FSq[v[1]], FSq[v[2]]], FSq[v[3]]]

\* C3: the azimuth returned by bloch_spherical_coords is the wrapped difference
\* arg(b) - arg(a) and lies in (-pi, pi].
C3_PhiWrapped ==
    out.op = "bloch_spherical_coords" =>
        \A sr \in Results :
            /\ sr[2][3] = Wrap(np_angle[sr[1][2]] - np_angle[sr[1][1]])
            /\ 1 - Pi <= sr[2][3] /\ sr[2][3] <= Pi

\* C4: the vector returned by bloch_vector has squared length r^2 = |a|^2 + |b|^2,
\* which is at most 1, and is 1 for a normalized two-level state; the r returned
\* by bloch_spherical_coords is the non-negative root of |a|^2 + |b|^2.
C4_VectorLength ==
    /\ out.op = "bloch_vector" =>
            \A sr \in Results :
                /\ SumSq(sr[2]) = LeadingPop(sr[1])
                /\ FLeq[SumSq(sr[2]), FOne]
                /\ Len(sr[1]) = 2 => SumSq(sr[2]) = FOne
    /\ out.op = "bloch_spherical_coords" =>
            \A sr \in Results :
                FSq[sr[2][1]] = LeadingPop(sr[1]) /\ FLeq[FZero, sr[2][1]]

\* bloch_vector has acted on a state with leakage whose vector has no zero component.
C4_Witness ==
    /\ out.op = "bloch_vector"
    /\ Len(state) > 2
    /\ FLess[FZero, LeadingPop(state)] /\ FLess[LeadingPop(state), FOne]
    /\ \A i \in 1..3 : out.state[i] # FZero

Re(x) == <<x, FZero>>
GroundState == <<Re(FOne), CZero>>
ExcitedState == <<CZero, Re(FOne)>>
PlusState == <<Re(<<0, 1, 0, 0, 2>>), Re(<<0, 1, 0, 0, 2>>)>>

\* C5: bloch_vector maps the ground state to (0, 0, 1), the excited state to
\* (0, 0, -1) and the equal superposition with zero relative phase to (1, 0, 0).
C5_CardinalStates ==
    out.op = "bloch_vector" =>
        \A sr \in Results :
            /\ sr[1] = GroundState => sr[2] = <<FZero, FZero, FOne>>
            /\ sr[1] = ExcitedState => sr[2] = <<FZero, FZero, FInt(-1)>>
            /\ sr[1] = PlusState => sr[2] = <<FOne, FZero, FZero>>

\* bloch_vector has acted on the ground and the excited state.
C5_Witness ==
    /\ out.op = "bloch_vector"
    /\ state = GroundState /\ out.state = <<FZero, FZero, FOne>>
    /\ other = ExcitedState /\ out.other = <<FZero, FZero, FInt(-1)>>

\* bloch_vector has acted on the equal superposition.
C5_WitnessPlus ==
    out.op = "bloch_vector" /\ state = PlusState /\ out.state = <<FOne, FZero, FZero>>

\* C6: two states that agree on the amplitudes at indices 0 and 1 get the same
\* (r, theta, phi) and the same (x, y, z), whatever their dimensions and their
\* other amplitudes; and a state with population beyond index 1 gets r < 1.
C6_TailIgnored ==
    /\ (out.op # "none" /\ state[1] = other[1] /\ state[2] = other[2]) =>
            out.state = out.other
    /\ out.op = "bloch_spherical_coords" =>
            \A sr \in Results :
                FLess[LeadingPop(sr[1]), FOne] => FLess[sr[2][1], FOne]

\* bloch_spherical_coords has acted on two states of different dimensions that
\* agree on the two leading amplitudes and hold population beyond index 1.
C6_Witness ==
    /\ out.op = "bloch_spherical_coords"
    /\ state[1] = other[1] /\ state[2] = other[2]
    /\ Len(state) # Len(other)
    /\ state[Len(state)] # CZero /\ other[Len(other)] # CZero
    /\ FLess[FZero, out.state[1]] /\ FLess[out.state[1], FOne]

----------------------------------------------------------------------------
(* Plotting runs: a caller makes figures and draws states on them.         *)

\* The states drawn: (|0> + i|1>)/sqrt(2); a three-level state with a quarter of
\* its population in the two leading levels; and a ket with a single amplitude.
PlusIState == Leading(FOne, Pi \div 4, 0, Pi \div 2)
LeakState == Leading(FHalf, Pi \div 6, 0, Pi \div 3) \o <<Polar(<<0, 0, 1, 0, 2>>, 0)>>
ShortState == <<Re(FOne)>>
PlotStates == {PlusIState, LeakState, ShortState}

StateLists == UNION {[1..n -> PlotStates] : n \in 0..MaxStates}

\* The mode arguments: the default, and one that go.Scatter3d rejects.
Modes == {"markers", "dots"}

InitFigure ==
    /\ fig = NoFigure
    /\ call = None
    /\ NoBloch
    /\ NoHamiltonian

\* fig = bloch_sphere_figure(show_colorbar=v)
BlochSphereFigure ==
    /\ \E v \in BOOLEAN :
         /\ fig' = bloch_sphere_figure(v)
         /\ call' = [op |-> "bloch_sphere_figure", show_colorbar |-> v,
                     states |-> <<>>, mode |-> "", raised |-> "none", n |-> 0]
    /\ UNCHANGED <<state, other, out, ham>>

\* add_states(fig, states, mode=mode), the n-th such call on this figure
AddStates ==
    /\ fig.type = "Figure"
    /\ call.n < MaxCalls
    /\ \E states \in StateLists, mode \in Modes :
         LET res == add_states(fig, states, mode)
         IN  /\ fig' = res.fig
             /\ call' = [op |-> "add_states", show_colorbar |-> call.show_colorbar,
                         states |-> states, mode |-> mode,
                         raised |-> res.raised, n |-> call.n + 1]
    /\ UNCHANGED <<state, other, out, ham>>

Next == BlochSphereFigure \/ AddStates

Spec == InitFigure /\ [][Next]_vars

----------------------------------------------------------------------------
(* Properties of the plotting functions, checked under Spec.               *)

\* s is a prefix of t.
IsPrefix(s, t) == Len(s) <= Len(t) /\ SubSeq(t, 1, Len(s)) = s

\* Every state of the list has the two amplitudes the Bloch functions read.
AllStates(states) == \A i \in 1..Len(states) : Len(states[i]) >= 2

\* C1: one call to add_states on a sequence of states of any length, the empty
\* one included, appends exactly one trace to the figure.
C1_OneTracePerCall ==
    [][(/\ call'.op = "add_states"
        /\ AllStates(call'.states)
        /\ call'.mode \in ValidModes) => Len(fig'.data) = Len(fig.data) + 1]_vars

\* C2: add_states only appends: the traces the figure held before the call are a
\* prefix of those it holds afterwards, and its layout is unchanged.
C2_OnlyAppends ==
    [][call'.op = "add_states" =>
        (IsPrefix(fig.data, fig'.data) /\ fig'.layout = fig.layout)]_vars

\* Two add_states calls have each appended a trace after the sphere's five.
C2_Witness ==
    /\ call.op = "add_states" /\ call.n = 2 /\ call.raised = "none"
    /\ Len(fig.data) = Len(SphereTraces) + 2
    /\ fig.data[Len(fig.data)] # fig.data[Len(fig.data) - 1]

\* C9: the figure's color axis has range [-1, 1] and is displayed exactly when
\* show_colorbar was given as True, also after add_states calls: the traces they
\* append refer to the layout's color axis and set no color scale of their own.
C9_ColorAxis ==
    fig.type = "Figure" =>
        /\ fig.layout.coloraxis.cmin = -1
        /\ fig.layout.coloraxis.cmax = 1
        /\ fig.layout.coloraxis.showscale = call.show_colorbar
        /\ \A i \in (Len(SphereTraces) + 1)..Len(fig.data) :
            /\ fig.data[i].marker.coloraxis = "coloraxis"
            /\ DOMAIN fig.data[i].marker = {"color", "coloraxis", "size"}

\* A figure made with show_colorbar=False has taken two traces from add_states.
C9_Witness ==
    /\ call.op = "add_states"
    /\ call.show_colorbar = FALSE
    /\ Len(fig.data) = Len(SphereTraces) + 2

\* C10: an add_states call that raises leaves the figure as it was, and a call on
\* a sequence holding a state with fewer than two amplitudes raises IndexError.
C10_AllOrNothing ==
    [][call'.op = "add_states" =>
        /\ call'.raised # "none" => fig' = fig
        /\ ~AllStates(call'.states) => call'.raised = "IndexError"]_vars

\* add_states has raised on a sequence whose first state has a Bloch vector and
\* whose second state has a single amplitude, on a figure it had drawn on before.
C10_Witness ==
    /\ call.op = "add_states" /\ call.raised = "IndexError"
    /\ call.mode \in ValidModes
    /\ Len(call.states) = 2
    /\ Len(call.states[1]) >= 2 /\ Len(call.states[2]) < 2
    /\ Len(fig.data) = Len(SphereTraces) + 1

----------------------------------------------------------------------------
(* Hamiltonian runs: a caller builds qubit and transmon Hamiltonians.      *)

\* The frequencies and anharmonicities handed over: the multiples of 1/2.
Frequencies == {FNorm[<<k, 0, 0, 0, 2>>] : k \in (-2 * MaxFreq)..(2 * MaxFreq)}

InitHamiltonian ==
    /\ ham = None
    /\ NoBloch
    /\ NoPlotting

\* H = qubit_hamiltonian(freq), the one call of the run
QubitHamiltonian ==
    /\ ham.op = "none"
    /\ \E freq \in Frequencies :
         ham' = [op |-> "qubit_hamiltonian", freq |-> freq, anharm |-> FZero,
                 dim |-> 2, H |-> qubit_hamiltonian(freq)]
    /\ UNCHANGED <<state, other, out, fig, call>>

\* H = transmon_hamiltonian(freq, anharm, dim), the one call of the run
TransmonHamiltonian ==
    /\ ham.op = "none"
    /\ \E freq \in Frequencies, anharm \in Frequencies, dim \in 2..MaxLevels :
         ham' = [op |-> "transmon_hamiltonian", freq |-> freq, anharm |-> anharm,
                 dim |-> dim, H |-> transmon_hamiltonian(freq, anharm, dim)]
    /\ UNCHANGED <<state, other, out, fig, call>>

NextHamiltonian == QubitHamiltonian \/ TransmonHamiltonian

SpecHamiltonian == InitHamiltonian /\ [][NextHamiltonian]_vars

\* The energy freq*n + (anharm/2)*n*(n-1) of level n.
LevelEnergy(freq, anharm, n) ==
    FAdd[FMul[freq, FInt(n)], FMul[FMul[FHalf, anharm], FInt(n * (n - 1))]]

\* C7: transmon_hamiltonian(freq, anharm, dim) is the dim x dim diagonal operator
\* whose n-th diagonal entry is freq*n + (anharm/2)*n*(n-1), for every level
\* n = 0..dim-1, the top level included.
C7_TransmonDiagonal ==
    ham.op = "transmon_hamiltonian" =>
        /\ Len(ham.H) = ham.dim
        /\ \A i \in 1..ham.dim :
            /\ Len(ham.H[i]) = ham.dim
            /\ \A j \in 1..ham.dim :
                ham.H[i][j] = IF i = j THEN LevelEnergy(ham.freq, ham.anharm, i - 1)
                              ELSE FZero

\* transmon_hamiltonian has built an operator of three or more levels whose top
\* level has a non-zero energy, from a non-zero freq and a negative anharm.
C7_Witness ==
    /\ ham.op = "transmon_hamiltonian"
    /\ ham.dim >= 3
    /\ ham.freq # FZero /\ FLess[ham.anharm, FZero]
    /\ ham.H[ham.dim][ham.dim] # FZero

\* C8: qubit_hamiltonian(freq) is diag(freq/2, -freq/2): twice its entry (0,0)
\* is freq, its entry (1,1) is the negative of entry (0,0), the others are 0.
C8_QubitDiagonal ==
    ham.op = "qubit_hamiltonian" =>
        /\ Len(ham.H) = 2 /\ Len(ham.H[1]) = 2 /\ Len(ham.H[2]) = 2
        /\ FAdd[ham.H[1][1], ham.H[1][1]] = ham.freq
        /\ ham.H[2][2] = FNeg[ham.H[1][1]]
        /\ ham.H[1][2] = FZero /\ ham.H[2][1] = FZero

\* qubit_hamiltonian has built the operator of a non-zero frequency.
C8_Witness ==
    /\ ham.op = "qubit_hamiltonian"
    /\ FLess[FZero, ham.freq]
    /\ ham.H[1][1] # FZero

====
